---------------------------- MODULE Spec2Model ----------------------------
(***************************************************************************)
(* SystemAgent (llm-agent.js): the query-resolution pipeline.              *)
(*                                                                         *)
(* Text is modelled as a sequence of atoms.  Text supplied from outside    *)
(* (the user's query, the completion service's replies, a command's        *)
(* standard output) is spelled character by character, so that             *)
(* toLowerCase, includes, trim and the quote-stripping regular expressions *)
(* are computed as the code computes them.  A fixed phrase of the code     *)
(* (a message, a label) is a single atom.  The empty sequence is the       *)
(* empty string.  A JavaScript value that may be null is a record          *)
(* [tag, s]: JNull or Str(s).                                              *)
(***************************************************************************)
EXTENDS Integers, Sequences, FiniteSets, TLC

-----------------------------------------------------------------------------
(* Bounds of the model. *)

\* largest retry budget a caller passes (the smallest is -1)
MaxRetriesBound == 2

\* number of processQuery calls made one after the other on one agent
MaxQueries == 2

\* default of the maxRetries parameter of processQuery
DefaultMaxRetries == 2

-----------------------------------------------------------------------------
(* JavaScript values and string primitives. *)

JNull == [tag |-> "null", s |-> <<>>]

Str(s) == [tag |-> "string", s |-> s]

\* truthiness of a string-or-null value: null and "" are falsy
Truthy(v) == v.tag = "string" /\ v.s # <<>>

SetMin(S) == CHOOSE x \in S : \A y \in S : x <= y

SetMax(S) == CHOOSE x \in S : \A y \in S : x >= y

UpperCase ==
  <<"A", "B", "C", "D", "E", "F", "G", "H", "I", "J", "K", "L", "M",
    "N", "O", "P", "Q", "R", "S", "T", "U", "V", "W", "X", "Y", "Z">>

LowerCase ==
  <<"a", "b", "c", "d", "e", "f", "g", "h", "i", "j", "k", "l", "m",
    "n", "o", "p", "q", "r", "s", "t", "u", "v", "w", "x", "y", "z">>

\* the lower-case letter of each upper-case letter
lowerOf ==
  [c \in {UpperCase[i] : i \in 1..26} |-> LowerCase[CHOOSE i \in 1..26 : UpperCase[i] = c]]

toLowerCaseChar(c) == IF c \in DOMAIN lowerOf THEN lowerOf[c] ELSE c

\* String.prototype.toLowerCase
toLowerCase(s) == [i \in 1..Len(s) |-> toLowerCaseChar(s[i])]

\* String.prototype.includes
includes(s, k) ==
  \E i \in 0..(Len(s) - Len(k)) : \A j \in 1..Len(k) : s[i + j] = k[j]

\* the characters the regular-expression class \s and trim() treat as space
IsSpace(c) == c \in {" ", "\n", "\t"}

\* String.prototype.trim
trim(s) ==
  LET idx == {i \in 1..Len(s) : ~IsSpace(s[i])}
  IN  IF idx = {} THEN <<>> ELSE SubSeq(s, SetMin(idx), SetMax(idx))

Quote == "\""

\* s.replace(/^\s*"/, '')
stripLeadingQuote(s) ==
  LET ks == {k \in 1..Len(s) : s[k] = Quote /\ \A j \in 1..(k - 1) : IsSpace(s[j])}
  IN  IF ks = {} THEN s ELSE SubSeq(s, SetMin(ks) + 1, Len(s))

\* s.replace(/"\s*$/, '')
stripTrailingQuote(s) ==
  LET ks == {k \in 1..Len(s) : s[k] = Quote /\ \A j \in (k + 1)..Len(s) : IsSpace(s[j])}
  IN  IF ks = {} THEN s ELSE SubSeq(s, 1, SetMin(ks) - 1)

-----------------------------------------------------------------------------
(* The keyword tables, in the order Object.entries enumerates them. *)

fallbackMethods ==
  << <<"c", "o", "r", "e", "s">>,
     <<"c", "p", "u">>,
     <<"p", "l", "a", "t", "f", "o", "r", "m">>,
     <<"m", "e", "m", "o", "r", "y">>,
     <<"f", "r", "e", "e", "m", "e", "m">>,
     <<"u", "p", "t", "i", "m", "e">>,
     <<"h", "o", "s", "t", "n", "a", "m", "e">>,
     <<"a", "r", "c", "h">> >>

advancedMethods ==
  << <<"c", "p", "u">>,
     <<"m", "e", "m", "o", "r", "y">>,
     <<"d", "i", "s", "k">>,
     <<"s", "t", "o", "r", "a", "g", "e">>,
     <<"n", "e", "t", "w", "o", "r", "k">>,
     <<"b", "a", "t", "t", "e", "r", "y">>,
     <<"o", "s">>,
     <<"g", "r", "a", "p", "h", "i", "c", "s">>,
     <<"p", "r", "o", "c", "e", "s", "s", "e", "s">> >>

\* mutant: isUsageQuery does not test for 'processes'
usageKeywordsWithoutProcesses ==
  << <<"u", "s", "a", "g", "e">>,
     <<"u", "s", "i", "n", "g">>,
     <<"r", "u", "n", "n", "i", "n", "g">>,
     <<"s", "e", "r", "v", "i", "c", "e", "s">>,
     <<"c", "u", "r", "r", "e", "n", "t">> >>

\* the keywords of isUsageQuery, in the order the code tests them
usageKeywords ==
  << <<"u", "s", "a", "g", "e">>,
     <<"u", "s", "i", "n", "g">>,
     <<"p", "r", "o", "c", "e", "s", "s", "e", "s">>,
     <<"r", "u", "n", "n", "i", "n", "g">>,
     <<"s", "e", "r", "v", "i", "c", "e", "s">>,
     <<"c", "u", "r", "r", "e", "n", "t">> >>

KUsage == <<"u", "s", "a", "g", "e">>

\* the reply queryLLM substitutes for an empty completion
NO_COMMAND == <<"N", "O", "_", "C", "O", "M", "M", "A", "N", "D">>

IDontKnow == <<"i", " ", "d", "o", "n", "'", "t", " ", "k", "n", "o", "w">>

-----------------------------------------------------------------------------
(* The inputs the model draws from. *)

QCores == <<"h", "o", "w", " ", "m", "a", "n", "y", " ", "c", "o", "r", "e", "s", " ", "d", "o", " ", "I", " ", "h", "a", "v", "e", "?">>

QCpuUsage == <<"w", "h", "a", "t", "'", "s", " ", "m", "y", " ", "C", "P", "U", " ", "u", "s", "a", "g", "e", "?">>

QCpu == <<"c", "p", "u">>

QCpuMemory == <<"c", "p", "u", " ", "m", "e", "m", "o", "r", "y">>

QProcesses == <<"R", "u", "n", "n", "i", "n", "g", " ", "P", "r", "o", "c", "e", "s", "s", "e", "s">>

QHello == <<"h", "e", "l", "l", "o">>

Queries == {QCores, QCpuUsage, QCpu, QCpuMemory, QProcesses, QHello}

RetryBudgets == (-1)..MaxRetriesBound

CmdDir == <<"d", "i", "r">>

\* the content of a completion for a generation call (JNull: no content)
GenerationReplies ==
  { Str(<<>>),
    Str(<<" ">>),
    Str(<<" ", "d", "i", "r", "\n">>),
    Str(<<"I", " ", "D", "o", "n", "'", "t", " ", "K", "n", "o", "w">>) }

\* the content of a completion for an interpretation call
InterpretationReplies ==
  { JNull,
    Str(<<>>),
    Str(<<"\"">>),
    Str(<<"\"", "\"">>),
    Str(<<"\"", "o", "k", "\"">>) }

\* what a command writes to standard output under the primary invocation
Stdouts ==
  { <<>>,
    <<"{", "}">>,
    <<"o", "k", "\n">>,
    <<"{", "\"", "S", "i", "z", "e", "\"", ":", "2", "0", "4", "8", "}">> }

\* what it writes under the degraded invocation
DegradedStdouts ==
  { <<"{", " ", "}">>,
    <<"[", " ", "]">>,
    <<"o", "k", "\n">> }

\* the values a fallback method computes
FallbackValue == <<"8">>

-----------------------------------------------------------------------------
(* JSON.parse and JSON.stringify(value, null, 2), on the texts that occur:  *)
(* an empty object or array, an object of one "key":number entry, a number, *)
(* a string literal.  Any other text is a syntax error.                     *)

DigitChars == <<"0", "1", "2", "3", "4", "5", "6", "7", "8", "9">>

IsDigit(c) == \E d \in 1..10 : DigitChars[d] = c

IsDigits(t) == Len(t) > 0 /\ \A i \in 1..Len(t) : IsDigit(t[i])

DigitValue(c) == (CHOOSE d \in 1..10 : DigitChars[d] = c) - 1

RECURSIVE textToNat(_)
textToNat(t) ==
  IF Len(t) = 0 THEN 0
  ELSE 10 * textToNat(SubSeq(t, 1, Len(t) - 1)) + DigitValue(t[Len(t)])

RECURSIVE natToText(_)
natToText(n) ==
  IF n < 10 THEN <<DigitChars[n + 1]>>
  ELSE natToText(n \div 10) \o <<DigitChars[(n % 10) + 1]>>

NotSpace(c) == ~IsSpace(c)

\* the position of the quote closing the key of {"key":digits}, or 0
closingQuote(c) ==
  LET qs == {q \in 4..(Len(c) - 3) :
               /\ c[q] = Quote
               /\ \A j \in 3..(q - 1) : c[j] # Quote
               /\ c[q + 1] = ":"
               /\ IsDigits(SubSeq(c, q + 2, Len(c) - 1))}
  IN  IF Len(c) >= 7 /\ c[1] = "{" /\ c[2] = Quote /\ c[Len(c)] = "}" /\ qs # {}
        THEN SetMin(qs) ELSE 0

SyntaxError == [ok |-> FALSE, kind |-> "error", entries |-> <<>>, text |-> <<>>]

JSONparse(s) ==
  LET c == SelectSeq(s, NotSpace)
      q == closingQuote(c)
  IN  IF c = <<"{", "}">>
        THEN [ok |-> TRUE, kind |-> "object", entries |-> <<>>, text |-> <<>>]
      ELSE IF c = <<"[", "]">>
        THEN [ok |-> TRUE, kind |-> "array", entries |-> <<>>, text |-> <<>>]
      ELSE IF q > 0
        THEN [ok |-> TRUE, kind |-> "object",
              entries |-> << [key |-> SubSeq(c, 3, q - 1),
                              value |-> textToNat(SubSeq(c, q + 2, Len(c) - 1))] >>,
              text |-> <<>>]
      ELSE IF IsDigits(c)
        THEN [ok |-> TRUE, kind |-> "number", entries |-> <<>>, text |-> c]
      ELSE IF Len(s) >= 2 /\ s[1] = Quote /\ s[Len(s)] = Quote
        THEN [ok |-> TRUE, kind |-> "string", entries |-> <<>>, text |-> s]
      ELSE SyntaxError

\* JSON.stringify(parsed, null, 2)
JSONstringify(v) ==
  IF v.kind = "object"
    THEN IF v.entries = <<>> THEN <<"{", "}">>
         ELSE <<"{", "\n", " ", " ", Quote>> \o v.entries[1].key \o <<Quote, ":", " ">>
              \o natToText(v.entries[1].value) \o <<"\n", "}">>
  ELSE IF v.kind = "array" THEN <<"[", "]">>
  ELSE v.text

\* JSON.stringify of a string: the literal, with quotes and newlines escaped
RECURSIVE escapeText(_)
escapeText(s) ==
  IF s = <<>> THEN <<>>
  ELSE (IF s[1] = Quote THEN <<"\\", Quote>>
        ELSE IF s[1] = "\n" THEN <<"\\", "n">>
        ELSE <<s[1]>>) \o escapeText(Tail(s))

JSONstringifyString(s) == <<Quote>> \o escapeText(s) \o <<Quote>>

-----------------------------------------------------------------------------
(* formatBytes, formatValue, formatFallbackOutput. *)

sizes == << <<"B">>, <<"KB">>, <<"MB">>, <<"GB">>, <<"TB">> >>

(* A byte count is kept as its digits to the base 1024, most significant   *)
(* first and without leading zeros: JavaScript numbers hold every integer  *)
(* below 2^53 exactly, more than the integers of the model checker.        *)
RECURSIVE toLimbs(_)
toLimbs(n) == IF n < 1024 THEN <<n>> ELSE toLimbs(n \div 1024) \o <<n % 1024>>

\* the number a short digit sequence stands for
RECURSIVE limbsValue(_)
limbsValue(s) ==
  IF s = <<>> THEN 0 ELSE limbsValue(SubSeq(s, 1, Len(s) - 1)) * 1024 + s[Len(s)]

\* the digits of m times the count, plus carry
RECURSIVE timesLimbs(_, _, _)
timesLimbs(s, m, carry) ==
  IF s = <<>> THEN (IF carry = 0 THEN <<>> ELSE <<carry>>)
  ELSE LET v == s[Len(s)] * m + carry
       IN  timesLimbs(SubSeq(s, 1, Len(s) - 1), m, v \div 1024) \o <<v % 1024>>

(* Math.log(bytes) / Math.log(1024) in double precision, for 1 <= bytes <  *)
(* 1024^5: the quotient is below the next integer, as the exact one is,    *)
(* except for the three counts 1024^5 - 3 .. 1024^5 - 1, whose logarithm   *)
(* is the double nearest to ln(1024^5) and whose quotient is exactly 5.    *)
quotientRoundsUp(bytes) ==
  /\ Len(bytes) = 5
  /\ \A j \in 1..4 : bytes[j] = 1023
  /\ bytes[5] >= 1021

\* Math.floor(Math.log(bytes) / Math.log(1024)) for bytes >= 1
log1024(bytes) == IF quotientRoundsUp(bytes) THEN Len(bytes) ELSE Len(bytes) - 1

(* Math.round(bytes / Math.pow(1024, i) * 100). The division is exact; the *)
(* product is rounded to 53 significant bits, which drops one bit of it    *)
(* from 2^15 on and two from 2^16 on, and can only happen for i = 4: a     *)
(* product just below a half is then rounded to the half, and Math.round   *)
(* rounds the half up.                                                     *)
roundedHundredths(bytes, i) ==
  LET product == timesLimbs(bytes, 100, 0)
      whole == limbsValue(SubSeq(product, 1, Len(product) - i))
      frac == SubSeq(product, Len(product) - i + 1, Len(product))
      lost == IF whole < 32768 THEN 0 ELSE IF whole < 65536 THEN 1 ELSE 2
      up == /\ i > 0
            /\ \/ frac[1] >= 512
               \/ /\ i = 4
                  /\ frac[1] = 511 /\ frac[2] = 1023 /\ frac[3] = 1023
                  /\ frac[4] >= 1024 - 4 * lost
  IN  whole + (IF up THEN 1 ELSE 0)

\* h hundredths as JavaScript prints the number h / 100
hundredthsToText(h) ==
  natToText(h \div 100) \o
    (IF h % 100 = 0 THEN <<>>
     ELSE IF h % 10 = 0 THEN <<".", DigitChars[((h % 100) \div 10) + 1]>>
     ELSE <<".", DigitChars[((h % 100) \div 10) + 1], DigitChars[(h % 10) + 1]>>)

formatBytes(bytes) ==
  IF bytes = <<0>> THEN natToText(0)
  ELSE LET i == log1024(bytes)
       IN  hundredthsToText(roundedHundredths(bytes, i)) \o <<" ">> \o
             (IF i + 1 <= Len(sizes) THEN sizes[i + 1] ELSE <<"undefined">>)

formatValue(key, value) ==
  LET k == toLowerCase(key)
  IN  IF \/ includes(k, <<"m", "e", "m", "o", "r", "y">>)
         \/ includes(k, <<"s", "i", "z", "e">>)
         \/ includes(k, <<"s", "p", "a", "c", "e">>)
         \/ key = <<"W", "o", "r", "k", "i", "n", "g", "S", "e", "t">>
         \/ key = <<"T", "o", "t", "a", "l", "P", "h", "y", "s", "i", "c", "a", "l", "M", "e", "m", "o", "r", "y">>
        THEN formatBytes(toLimbs(value))
      ELSE IF includes(k, <<"p", "e", "r", "c", "e", "n", "t", "a", "g", "e">>) \/ includes(k, KUsage)
        THEN natToText(value) \o <<"%">>
      ELSE natToText(value)

RECURSIVE joinPairs(_)
joinPairs(entries) ==
  IF entries = <<>> THEN <<>>
  ELSE <<"<strong>">> \o entries[1].key \o <<":</strong> ">>
       \o formatValue(entries[1].key, entries[1].value)
       \o (IF Len(entries) > 1 THEN <<"<br>">> \o joinPairs(Tail(entries)) ELSE <<>>)

formatFallbackOutput(userQuery, rawOutput) ==
  LET data == JSONparse(rawOutput)
  IN  IF ~data.ok
        THEN <<"<strong>System Information:</strong><br><pre>">> \o rawOutput \o <<"</pre>">>
      ELSE IF data.kind = "array"
        THEN <<"<strong>Results for ", Quote>> \o userQuery \o <<Quote, ":</strong><ul>">>
             \o <<"</ul>">>
      ELSE IF data.kind = "object"
        THEN joinPairs(data.entries)
      ELSE rawOutput

-----------------------------------------------------------------------------
(* Results of calls that may throw: [thrown, value, message]. *)

Ok(v) == [thrown |-> FALSE, value |-> v, message |-> <<>>]

Throw(m) == [thrown |-> TRUE, value |-> <<>>, message |-> m]

ApiError == <<"request timed out">>

NullClientError == <<"Cannot read properties of null (reading 'chat')">>

\* outcomes of this.groq.chat.completions.create for the call sites
CompletionOutcomes(groq, replies) ==
  IF groq = "null" THEN {Throw(NullClientError)}
  ELSE {Throw(ApiError)} \cup {Ok(r) : r \in replies}

-----------------------------------------------------------------------------
(* interpretResult. *)

\* line 275: the output is empty, or an empty object or array
noData(rawOutput) ==
  \/ rawOutput = <<>>
  \/ trim(rawOutput) = <<"{", "}">>
  \/ trim(rawOutput) = <<"[", "]">>

noDataMessage(userQuery) ==
  <<"I couldn't find any information about ", Quote>> \o userQuery
    \o <<Quote, ". The command didn't return any data.">>

\* lines 314-317: the reply's content, defaulted and stripped of quotes
cleanInterpretation(content) ==
  LET interpretation ==
        IF content.tag = "string" /\ trim(content.s) # <<>>
          THEN trim(content.s)
          ELSE <<"Could not generate explanation">>
  IN  stripTrailingQuote(stripLeadingQuote(interpretation))

\* mutant: interpretResult lets the completion call's error through
interpretResultRethrows(userQuery, rawOutput, completion) ==
  IF completion.thrown
    THEN Throw(completion.message)
    ELSE Ok(cleanInterpretation(completion.value))

\* lines 303-322: the completion call's outcome turned into the interpretation
interpretResult(userQuery, rawOutput, completion) ==
  IF completion.thrown
    THEN Ok(formatFallbackOutput(userQuery, rawOutput))
    ELSE Ok(cleanInterpretation(completion.value))

-----------------------------------------------------------------------------
(* queryLLM. *)

\* line 188: content?.trim() || 'NO_COMMAND'
generatedCommand(content) ==
  IF content.tag = "string" /\ trim(content.s) # <<>>
    THEN trim(content.s)
    ELSE NO_COMMAND

\* lines 176-191: the completion call's outcome as queryLLM returns or throws it
queryLLM(completion) ==
  IF completion.thrown
    THEN Throw(<<"Groq API request failed: ">> \o completion.message)
    ELSE Ok(generatedCommand(completion.value))

\* line 183: the two temperature settings, in tenths
LowTemperature == 1

HighTemperature == 3

\* mutant: one temperature for every generation call
temperatureFixed(previousError) == LowTemperature

\* line 183
temperature(previousError) ==
  IF Truthy(previousError) THEN HighTemperature ELSE LowTemperature

\* line 170: the prompt carries the previous-failure clause
failureClause(previousError) == Truthy(previousError)

-----------------------------------------------------------------------------
(* tryFallbackMethod and tryAdvancedMethod: the first matching key whose   *)
(* method does not throw decides; failing is the set of keys whose method  *)
(* throws.                                                                 *)

MatchingKeys(table, userQuery) ==
  LET query == toLowerCase(userQuery)
  IN  {i \in 1..Len(table) : includes(query, table[i])}

tryFallbackMethod(userQuery, failing) ==
  LET works == {i \in MatchingKeys(fallbackMethods, userQuery) :
                  fallbackMethods[i] \notin failing}
  IN  IF works = {} THEN JNull
      ELSE Str(<<"U+1F4CB ", "Using built-in method: ">> \o FallbackValue)

\* the record an accessor returns, as JSON.stringify(result, null, 2) prints it
accessorRecord(key) == <<"{", Quote>> \o key \o <<Quote, ":", "1", "}">>

tryAdvancedMethod(userQuery, failing) ==
  LET works == {i \in MatchingKeys(advancedMethods, userQuery) :
                  advancedMethods[i] \notin failing}
  IN  IF works = {} THEN JNull
      ELSE Str(<<"U+1F52C ", "Advanced system info:", "\n">>
               \o accessorRecord(advancedMethods[SetMin(works)]))

\* the accessors tryAdvancedMethod invokes: every matching key up to the
\* first that returns
invokedAccessors(userQuery, failing) ==
  LET m == MatchingKeys(advancedMethods, userQuery)
      works == {i \in m : advancedMethods[i] \notin failing}
  IN  {advancedMethods[i] : i \in {j \in m : works = {} \/ j <= SetMin(works)}}

-----------------------------------------------------------------------------
(* executeCommand. primary and degraded are the outcomes of the two         *)
(* execSync invocations: the standard output, or the error thrown.          *)

SpawnError == <<"spawnSync powershell ENOENT">>

CommandError == <<"Command failed: powershell -EncodedCommand">>

PrimaryOutcomes == {Ok(o) : o \in Stdouts} \cup {Throw(SpawnError), Throw(CommandError)}

DegradedOutcomes ==
  {Ok(o) : o \in DegradedStdouts} \cup {Throw(<<"Command failed: powershell -Command">>)}

\* line 254: the catch block, and with it the degraded invocation, is entered
\* whenever the primary execSync throws
degradedInvoked(primary) == primary.thrown

\* what became of the primary invocation: it returned the output, powershell
\* could not be run at all, or it ran the command and exited with an error
primaryKind(primary) ==
  IF ~primary.thrown THEN "returned"
  ELSE IF primary.message = CommandError THEN "commandFailed"
  ELSE "notExecuted"

executeCommand(command, primary, degraded) ==
  IF ~primary.thrown
    THEN LET parsed == JSONparse(primary.value)
         IN  IF parsed.ok THEN Ok(JSONstringify(parsed)) ELSE Ok(trim(primary.value))
  ELSE IF ~degraded.thrown
    THEN Ok(trim(degraded.value))
  ELSE Throw(<<"Command execution failed: ">> \o primary.message)

-----------------------------------------------------------------------------
(* The agent, the processQuery call in progress, and its history. *)

VARIABLES
  groq,           \* this.groq: "null" or "client"
  isInitialized,  \* this.isInitialized
  apiKey,         \* this.apiKey: "null" or "key"
  frame,          \* the processQuery call: its position, parameters, locals, result
  hist,           \* what the call has done so far (history, not read by the code)
  returned,       \* awaited calls that have returned or failed in the call (history)
  agentLog,       \* clients created and connectivity tests made on the agent (history)
  startup,        \* the initialize() call the application makes at startup
  formatCall      \* a call of formatBytes: its argument and its result

vars == <<groq, isInitialized, apiKey, frame, hist, returned, agentLog, startup, formatCall>>

Envelope(interpretation, command, rawOutput) ==
  [kind |-> "envelope", interpretation |-> interpretation,
   command |-> command, rawOutput |-> rawOutput]

Pending == [kind |-> "pending", interpretation |-> <<>>, command |-> <<>>, rawOutput |-> <<>>]

\* the value of a call whose body ends without a return statement
Undefined == [kind |-> "undefined", interpretation |-> <<>>, command |-> <<>>, rawOutput |-> <<>>]

\* the call ended by an exception reaching the caller
Raised == [kind |-> "raised", interpretation |-> <<>>, command |-> <<>>, rawOutput |-> <<>>]

LabelSysinfo == <<"Used systeminformation package">>

LabelBuiltin == <<"Used built-in method">>

LabelFallback == <<"Used fallback method">>

MsgInitFailed == <<"System initialization failed. Using basic methods only.">>

MsgCouldNotFind(userQuery) ==
  <<"I couldn't find a way to answer ", Quote>> \o userQuery
    \o <<Quote, ". Try asking about specific system components like CPU, memory, disk, etc.">>

MsgAfterAttempts(fallbackResult) ==
  <<"U+26A1 ", "After several attempts, I found another way!", "\n", "\n">> \o fallbackResult

MsgCouldNotRetrieve(userQuery, message) ==
  <<"I couldn't retrieve the information for ", Quote>> \o userQuery
    \o <<Quote, ".", "\n", "\n", "Last error: ">> \o message
    \o <<"\n", "\n", "Try asking differently or about a specific component.">>

NoArgs == [previousError |-> JNull, failedCommand |-> JNull, temperature |-> 0, failureClause |-> FALSE]

NoFailure == [error |-> JNull, command |-> JNull]

\* no reply: the generation call has not returned, or it failed
NoReply == [tag |-> "none", s |-> <<>>]

IdleFrame ==
  [pc |-> "idle", userQuery |-> <<>>, maxRetries |-> DefaultMaxRetries, attempt |-> 0,
   lastError |-> JNull, lastCommand |-> JNull,
   command |-> <<>>, rawOutput |-> <<>>, result |-> Pending]

\* the history of a call that has done nothing yet
FreshHist(queries, llmSucceeded) ==
  [ genCalls |-> 0,          \* calls of queryLLM
    execCalls |-> 0,         \* calls of executeCommand
    accessors |-> {},        \* structured accessors invoked
    accessorThrew |-> {},    \* structured accessors that threw
    fallbackCalls |-> 0,     \* calls of tryFallbackMethod
    interpCalls |-> 0,       \* completion calls made by interpretResult
    testCalls |-> 0,         \* completion calls made by testGroqConnection
    genArgs |-> NoArgs,      \* what the latest queryLLM call received
    failed |-> NoFailure,    \* error and command text of the latest failed attempt
    attemptCommand |-> JNull,\* the command generated in the current attempt
    reply |-> NoReply,       \* the content the latest generation call returned
    execsBefore |-> 0,       \* executeCommand calls made before the latest generation call
    interpFailed |-> FALSE,  \* the completion call made by interpretResult failed
    executed |-> {},         \* the command texts passed to executeCommand
    retriedVerbatim |-> FALSE, \* executeCommand received a text it had received before
    primary |-> "none",      \* the primary invocation of the latest executeCommand call
    degradedRuns |-> 0,      \* degraded invocations made by the latest executeCommand call
    raised |-> NoReply,      \* the error text the latest executeCommand call raised
    atStart |-> [groq |-> "null", isInitialized |-> FALSE], \* the agent when the call began
    afterFailure |-> FALSE,  \* an earlier call on this agent ended on a failure path
    llmSucceeded |-> llmSucceeded, \* some completion call of this agent returned
    queries |-> queries ]    \* processQuery calls made on this agent

\* the agent's history before any initialization
FreshLog ==
  [ clients |-> 0,          \* executions of this.groq = new Groq(...)
    tests |-> 0,            \* calls of testGroqConnection
    failedTests |-> 0,      \* calls of testGroqConnection that failed
    lateWrites |-> 0 ]      \* assignments to groq or isInitialized made while
                            \* isInitialized was already true

NoFormatCall == [pc |-> "none", bytes |-> <<0>>, result |-> <<>>]

\* lines 8-12: the agent as the constructor leaves it
Constructed ==
  /\ groq = "null"
  /\ isInitialized = FALSE
  /\ apiKey \in {"null", "key"}
  /\ frame = IdleFrame
  /\ hist = FreshHist(0, FALSE)
  /\ returned = 0
  /\ agentLog = FreshLog

\* the agent used on its own: no startup call of initialize
Init ==
  /\ Constructed
  /\ startup = "none"
  /\ formatCall = NoFormatCall

Return(s, result) == [s EXCEPT !.f.pc = "done", !.f.result = result]

-----------------------------------------------------------------------------
(* processQuery, lines 389-397: classification. *)

\* mutant: the keywords are sought in the query as typed
isUsageQueryCaseSensitive(userQuery) ==
  \E i \in 1..Len(usageKeywords) : includes(userQuery, usageKeywords[i])

isUsageQuery(userQuery) ==
  LET queryLower == toLowerCase(userQuery)
  IN  \E i \in 1..Len(usageKeywords) : includes(queryLower, usageKeywords[i])

\* Object.keys(this.advancedMethods).find(...), or null
advancedMatch(userQuery) ==
  LET queryLower == toLowerCase(userQuery)
      found == {i \in 1..Len(advancedMethods) :
                  includes(queryLower, advancedMethods[i]) /\ ~includes(queryLower, KUsage)}
  IN  IF ~isUsageQuery(userQuery) /\ found # {}
        THEN Str(advancedMethods[SetMin(found)])
        ELSE JNull

-----------------------------------------------------------------------------
(* processQuery, lines 420-474: the retry loop. *)

\* mutant: one attempt too many
loopTestOffByOne(attempt, maxRetries) == attempt <= maxRetries + 1

\* line 423: the loop's condition
loopTest(attempt, maxRetries) == attempt <= maxRetries

\* the loop's head: the next attempt calls queryLLM, or the loop and with it
\* the function's body ends without a return
RetryLoop(s) ==
  IF loopTest(s.f.attempt, s.f.maxRetries)
    THEN [s EXCEPT !.f.pc = "queryLLM",
                   !.h.genCalls = @ + 1,
                   !.h.genArgs = [previousError |-> s.f.lastError,
                                  failedCommand |-> s.f.lastCommand,
                                  temperature |-> temperature(s.f.lastError),
                                  failureClause |-> failureClause(s.f.lastError)],
                   !.h.attemptCommand = JNull,
                   !.h.execsBefore = s.h.execCalls]
    ELSE Return(s, Undefined)

\* mutant: the catch block also records the command of the failed attempt
recordFailureWithCommand(s, message) ==
  [s EXCEPT !.f.lastError = Str(message), !.f.lastCommand = s.h.attemptCommand]

\* lines 452-454: what the catch block records of the failed attempt; the
\* code assigns lastError and never assigns lastCommand
recordFailure(s, message) ==
  [s EXCEPT !.f.lastError = Str(message), !.f.lastCommand = s.f.lastCommand]

\* lines 456-471: the final fallback, after the last attempt failed
FinalFallback(s, message, failing) ==
  LET fallbackResult == tryFallbackMethod(s.f.userQuery, failing)
      s1 == [s EXCEPT !.h.fallbackCalls = @ + 1]
  IN  IF Truthy(fallbackResult)
        THEN Return(s1, Envelope(MsgAfterAttempts(fallbackResult.s), LabelFallback, <<>>))
        ELSE Return(s1, Envelope(MsgCouldNotRetrieve(s.f.userQuery, message),
                                 IF Truthy(s1.f.lastCommand) THEN s1.f.lastCommand.s ELSE <<>>,
                                 <<>>))

\* mutant: the failed attempt is repeated under the same index
CatchAttemptSameIndex(s, message, failing) ==
  LET s1 == [recordFailure(s, message) EXCEPT
               !.h.failed = [error |-> Str(message), command |-> s.h.attemptCommand]]
  IN  IF s1.f.attempt = s1.f.maxRetries /\ Truthy(tryFallbackMethod(s1.f.userQuery, failing))
        THEN FinalFallback(s1, message, failing)
        ELSE RetryLoop(s1)

\* mutant: the catch block consults the fallback table after every failure
CatchAttemptEager(s, message, failing) ==
  LET s1 == [recordFailure(s, message) EXCEPT
               !.h.failed = [error |-> Str(message), command |-> s.h.attemptCommand]]
  IN  IF s1.f.attempt <= s1.f.maxRetries /\ Truthy(tryFallbackMethod(s1.f.userQuery, failing))
        THEN FinalFallback(s1, message, failing)
      ELSE IF s1.f.attempt = s1.f.maxRetries
        THEN FinalFallback(s1, message, failing)
        ELSE RetryLoop([s1 EXCEPT !.f.attempt = @ + 1])

\* lines 452-473: the catch block of an attempt
CatchAttempt(s, message, failing) ==
  LET s1 == [recordFailure(s, message) EXCEPT
               !.h.failed = [error |-> Str(message), command |-> s.h.attemptCommand]]
  IN  IF s1.f.attempt = s1.f.maxRetries
        THEN FinalFallback(s1, message, failing)
        ELSE RetryLoop([s1 EXCEPT !.f.attempt = @ + 1])

\* mutant: the unknown signal is sought in the reply as written
noCommandCaseSensitive(llmCommand) ==
  llmCommand = <<>> \/ includes(llmCommand, IDontKnow)

\* line 427: no command, or the unknown signal
noCommand(llmCommand) ==
  llmCommand = <<>> \/ includes(toLowerCase(llmCommand), IDontKnow)

\* lines 428-440: the static fallback table, or the could-not-find envelope
GiveUp(s, failing) ==
  LET fallbackResult == tryFallbackMethod(s.f.userQuery, failing)
      s1 == [s EXCEPT !.h.fallbackCalls = @ + 1]
  IN  IF Truthy(fallbackResult)
        THEN Return(s1, Envelope(fallbackResult.s, LabelBuiltin, <<>>))
        ELSE Return(s1, Envelope(MsgCouldNotFind(s.f.userQuery), <<>>, <<>>))

\* lines 443-450: execute the command, then interpret its output
ExecuteAndInterpret(s, llmCommand, primary, degraded, failing) ==
  LET rawResult == executeCommand(llmCommand, primary, degraded)
      s1 == [s EXCEPT !.h.execCalls = @ + 1,
                      !.h.executed = @ \cup {llmCommand},
                      !.h.retriedVerbatim = @ \/ llmCommand \in s.h.executed,
                      !.h.primary = primaryKind(primary),
                      !.h.degradedRuns = IF degradedInvoked(primary) THEN 1 ELSE 0,
                      !.h.raised = IF rawResult.thrown THEN Str(rawResult.message) ELSE NoReply]
  IN  IF rawResult.thrown
        THEN CatchAttempt(s1, rawResult.message, failing)
      ELSE IF noData(rawResult.value)
        THEN Return(s1, Envelope(noDataMessage(s.f.userQuery), llmCommand, rawResult.value))
      ELSE [s1 EXCEPT !.f.pc = "interpretResult",
                      !.f.command = llmCommand,
                      !.f.rawOutput = rawResult.value,
                      !.h.interpCalls = @ + 1]

\* lines 425-450: what an attempt does with the outcome of queryLLM
AfterGeneration(s, generated, primary, degraded, failing) ==
  IF generated.thrown
    THEN CatchAttempt(s, generated.message, failing)
  ELSE LET s1 == [s EXCEPT !.h.attemptCommand = Str(generated.value)]
       IN  IF noCommand(generated.value)
             THEN GiveUp(s1, failing)
             ELSE ExecuteAndInterpret(s1, generated.value, primary, degraded, failing)

-----------------------------------------------------------------------------
(* processQuery, lines 378-417: initialization and the structured shortcut. *)

\* mutant: initialize lets its error through
InitializationRethrown(s) == Return(s, Raised)

\* mutant: the value initialize returned is not looked at, and the call goes
\* on to the retry loop
InitializationIgnored(s) == RetryLoop(s)

\* lines 380-386: initialize returned false
InitializationFailed(s) ==
  Return(s, Envelope(MsgInitFailed, <<>>, <<>>))

\* lines 389-423: after initialization, the shortcut or the loop
Classify(s) ==
  IF Truthy(advancedMatch(s.f.userQuery))
    THEN [s EXCEPT !.f.pc = "tryAdvancedMethod"]
    ELSE RetryLoop(s)

\* lines 400-417: the outcome of tryAdvancedMethod
AfterAdvanced(s, failing) ==
  LET advancedResult == tryAdvancedMethod(s.f.userQuery, failing)
      invoked == invokedAccessors(s.f.userQuery, failing)
      s1 == [s EXCEPT !.h.accessors = invoked,
                      !.h.accessorThrew = invoked \cap failing]
  IN  IF Truthy(advancedResult)
        THEN LET rawOutput == JSONstringifyString(advancedResult.s)
             IN  IF noData(rawOutput)
                   THEN Return(s1, Envelope(noDataMessage(s.f.userQuery), LabelSysinfo, rawOutput))
                   ELSE [s1 EXCEPT !.f.pc = "interpretAdvanced",
                                   !.f.command = LabelSysinfo,
                                   !.f.rawOutput = rawOutput,
                                   !.h.interpCalls = @ + 1]
        ELSE RetryLoop(s1)

\* a completion call that returned marks the service as having answered
Answered(s, completion) ==
  IF completion.thrown THEN s ELSE [s EXCEPT !.h.llmSucceeded = TRUE]

\* the history keeps whether the completion call of interpretResult failed
Interpreted(s, completion) ==
  [Answered(s, completion) EXCEPT !.h.interpFailed = completion.thrown]

\* the history keeps the content the generation call returned
Replied(s, completion) ==
  [s EXCEPT !.h.reply = IF completion.thrown THEN NoReply ELSE completion.value]

-----------------------------------------------------------------------------
(* The steps of a processQuery call, one per await. *)

Becomes(s) == frame' = s.f /\ hist' = s.h

Now == [f |-> frame, h |-> hist]

\* mutant: a call that ends on a failure path marks the agent uninitialized
ForgetAgentOnFailure ==
  /\ groq' = groq
  /\ apiKey' = apiKey
  /\ agentLog' = agentLog
  /\ isInitialized' = (isInitialized /\ ~(frame'.pc = "done" /\ hist'.fallbackCalls > 0))

\* lines 389-475: past the initialization check processQuery assigns no field
\* of the agent
KeepAgent == UNCHANGED <<groq, isInitialized, apiKey, agentLog>>

\* a step of processQuery is no step of the startup call or of formatBytes
QueryStep == UNCHANGED <<startup, formatCall>>

\* line 121: this.groq = new Groq(...), followed by the connectivity test
clientCreated(log) == [log EXCEPT !.clients = @ + 1, !.tests = @ + 1]

\* lines 126-135: the connectivity test has returned or failed
clientTested(log, thrown, initialized) ==
  IF thrown THEN [log EXCEPT !.failedTests = @ + 1]
  ELSE [log EXCEPT !.lateWrites = @ + (IF initialized THEN 1 ELSE 0)]

\* an awaited call returns or fails, and the call proceeds
CallReturned == frame.pc \notin {"idle", "done"} /\ returned' = returned + 1

\* lines 377-387, to the await of testGroqConnection (lines 111-126)
ProcessQuery(userQuery, maxRetries) ==
  /\ frame.pc = "idle"
  /\ hist.queries < MaxQueries
  /\ startup # "created"
  /\ returned' = 0
  /\ QueryStep
  /\ LET s == [f |-> [IdleFrame EXCEPT !.userQuery = userQuery, !.maxRetries = maxRetries],
               h |-> [FreshHist(hist.queries + 1, hist.llmSucceeded) EXCEPT
                        !.atStart = [groq |-> groq, isInitialized |-> isInitialized],
                        !.afterFailure = hist.afterFailure]]
     IN  IF isInitialized
           THEN Becomes(Classify(s)) /\ KeepAgent
         ELSE IF apiKey = "null"
           THEN Becomes(InitializationFailed(s)) /\ KeepAgent
         ELSE /\ groq' = "client"
              /\ agentLog' = clientCreated(agentLog)
              /\ Becomes([s EXCEPT !.f.pc = "testGroqConnection", !.h.testCalls = @ + 1])
              /\ UNCHANGED <<isInitialized, apiKey>>

\* lines 126-135 and 138-149: the connectivity test returns or fails
TestGroqConnection ==
  /\ frame.pc = "testGroqConnection"
  /\ CallReturned
  /\ QueryStep
  /\ \E completion \in CompletionOutcomes(groq, {Str(<<"Hello!">>)}) :
       /\ agentLog' = clientTested(agentLog, completion.thrown, isInitialized)
       /\ IF completion.thrown
         THEN Becomes(InitializationFailed(Now)) /\ UNCHANGED <<groq, isInitialized, apiKey>>
         ELSE /\ isInitialized' = TRUE
              /\ Becomes(Classify(Answered(Now, completion)))
              /\ UNCHANGED <<groq, apiKey>>

\* lines 198-214 and 400-417: the accessors return or throw
TryAdvancedMethod ==
  /\ frame.pc = "tryAdvancedMethod"
  /\ CallReturned
  /\ QueryStep
  /\ \E failing \in SUBSET {advancedMethods[i] : i \in MatchingKeys(advancedMethods, frame.userQuery)} :
       Becomes(AfterAdvanced(Now, failing))
  /\ KeepAgent

\* lines 303-322 and 403-416: the interpretation of a structured result
InterpretAdvanced ==
  /\ frame.pc = "interpretAdvanced"
  /\ CallReturned
  /\ QueryStep
  /\ \E completion \in CompletionOutcomes(groq, InterpretationReplies) :
       LET interpretation == interpretResult(frame.userQuery, frame.rawOutput, completion)
           s1 == Interpreted(Now, completion)
       IN  IF interpretation.thrown
             THEN Becomes(RetryLoop(s1))
             ELSE Becomes(Return(s1, Envelope(interpretation.value, frame.command, frame.rawOutput)))
  /\ KeepAgent

\* the fallback methods that can throw on this host: 'cpu' reads cpus()[0]
FallbackFailures(userQuery) ==
  SUBSET {fallbackMethods[i] : i \in MatchingKeys(fallbackMethods, userQuery) \cap {2}}

\* the attempt reaches executeCommand
Executes(generated) == ~generated.thrown /\ ~noCommand(generated.value)

\* lines 176-191 and 425-473: the generation call returns or fails
QueryLLM ==
  /\ frame.pc = "queryLLM"
  /\ CallReturned
  /\ QueryStep
  /\ \E failing \in FallbackFailures(frame.userQuery) :
     \E completion \in CompletionOutcomes(groq, GenerationReplies) :
     \E primary \in IF Executes(queryLLM(completion)) THEN PrimaryOutcomes ELSE {Ok(<<>>)} :
     \E degraded \in IF primary.thrown THEN DegradedOutcomes ELSE {Ok(<<>>)} :
       Becomes(AfterGeneration(Replied(Answered(Now, completion), completion),
                               queryLLM(completion), primary, degraded, failing))
  /\ KeepAgent

\* lines 303-322 and 444-473: the interpretation of a command's output
InterpretResult ==
  /\ frame.pc = "interpretResult"
  /\ CallReturned
  /\ QueryStep
  /\ \E failing \in FallbackFailures(frame.userQuery),
        completion \in CompletionOutcomes(groq, InterpretationReplies) :
       LET interpretation == interpretResult(frame.userQuery, frame.rawOutput, completion)
           s1 == Interpreted(Now, completion)
       IN  IF interpretation.thrown
             THEN Becomes(CatchAttempt(s1, interpretation.message, failing))
             ELSE Becomes(Return(s1, Envelope(interpretation.value, frame.command, frame.rawOutput)))
  /\ KeepAgent

\* the call ended on a failure path: no envelope, initialization failed, or
\* the static fallback table was consulted
EndedOnFailure ==
  /\ frame.pc = "done"
  /\ \/ frame.result.kind # "envelope"
     \/ ~isInitialized
     \/ hist.fallbackCalls > 0

\* the caller takes the value processQuery returned
ReturnToCaller ==
  /\ frame.pc = "done"
  /\ frame' = IdleFrame
  /\ returned' = 0
  /\ hist' = [FreshHist(hist.queries, hist.llmSucceeded) EXCEPT
                !.afterFailure = hist.afterFailure \/ EndedOnFailure]
  /\ KeepAgent
  /\ QueryStep

Next ==
  \/ \E userQuery \in Queries, maxRetries \in RetryBudgets : ProcessQuery(userQuery, maxRetries)
  \/ TestGroqConnection
  \/ TryAdvancedMethod
  \/ InterpretAdvanced
  \/ QueryLLM
  \/ InterpretResult
  \/ ReturnToCaller

Spec == Init /\ [][Next]_vars

\* every external call eventually returns or fails: a call in progress does
\* not wait forever at an await (the connectivity test, the structured
\* accessors, a completion call and the shell execution that follows it)
FairSpec == Spec /\ WF_returned(CallReturned)

-----------------------------------------------------------------------------
(* The application (WINDOWS_SETUP.md, main.js): at startup it constructs   *)
(* the agent and calls initialize() without waiting for it; the handler of *)
(* 'query-system' calls processQuery as soon as the agent exists, so a     *)
(* query runs while the startup call awaits its connectivity test.         *)

\* main.js: agent = new SystemAgent(), initialize() not yet called
StartupInit ==
  /\ Constructed
  /\ startup = "created"
  /\ formatCall = NoFormatCall

\* main.js 'await agent.initialize()': lines 111-126, to the await
StartupInitialize ==
  /\ startup = "created"
  /\ IF isInitialized \/ apiKey = "null"
       THEN startup' = "done" /\ UNCHANGED <<groq, agentLog>>
       ELSE /\ groq' = "client"
            /\ agentLog' = clientCreated(agentLog)
            /\ startup' = "testGroqConnection"
  /\ UNCHANGED <<isInitialized, apiKey, frame, hist, returned, formatCall>>

\* lines 126-135 and 138-149: the startup call's connectivity test returns
\* or fails
StartupTest ==
  /\ startup = "testGroqConnection"
  /\ \E completion \in CompletionOutcomes(groq, {Str(<<"Hello!">>)}) :
       /\ agentLog' = clientTested(agentLog, completion.thrown, isInitialized)
       /\ isInitialized' = (isInitialized \/ ~completion.thrown)
       /\ hist' = Answered(Now, completion).h
  /\ startup' = "done"
  /\ UNCHANGED <<groq, apiKey, frame, returned, formatCall>>

\* the queries made while the application starts: one that goes to the
\* retry loop, one that goes to the structured accessors
StartupQueries == {QHello, QCpu}

StartupNext ==
  \/ StartupInitialize
  \/ StartupTest
  \/ \E userQuery \in StartupQueries, maxRetries \in RetryBudgets :
       ProcessQuery(userQuery, maxRetries)
  \/ TestGroqConnection
  \/ TryAdvancedMethod
  \/ InterpretAdvanced
  \/ QueryLLM
  \/ InterpretResult
  \/ ReturnToCaller

StartupSpec == StartupInit /\ [][StartupNext]_vars

-----------------------------------------------------------------------------
(* Calls of initialize() interleaved with calls of processQuery: a caller  *)
(* calls initialize() at any moment, also while a query is in flight and   *)
(* also again after a call of it has returned.  A second query in flight   *)
(* acts on the agent only through the initialize() it calls (KeepAgent),   *)
(* so the caller below stands for it as well.                              *)

\* number of clients the calls of initialize() made by that caller create
MaxInitializations == 2

\* lines 111-126, to the await: initialize() called from outside processQuery
Initialize ==
  /\ startup \in {"none", "done"}
  /\ agentLog.clients < MaxInitializations
  /\ IF isInitialized \/ apiKey = "null"
       THEN startup' = "done" /\ UNCHANGED <<groq, agentLog>>
       ELSE /\ groq' = "client"
            /\ agentLog' = clientCreated(agentLog)
            /\ startup' = "testGroqConnection"
  /\ UNCHANGED <<isInitialized, apiKey, frame, hist, returned, formatCall>>

\* the retry budgets of the interleaved queries: a single attempt, or one retry
InterleavedBudgets == 0..1

InterleavedNext ==
  \/ Initialize
  \/ StartupTest
  \/ \E userQuery \in StartupQueries, maxRetries \in InterleavedBudgets :
       ProcessQuery(userQuery, maxRetries)
  \/ TestGroqConnection
  \/ TryAdvancedMethod
  \/ InterpretAdvanced
  \/ QueryLLM
  \/ InterpretResult
  \/ ReturnToCaller

InterleavedSpec == Init /\ [][InterleavedNext]_vars

-----------------------------------------------------------------------------
(* Queries that mention processes: the word in three spellings, alone,     *)
(* after the keyword of another accessor or inside a longer word, and      *)
(* before the keyword of a third; and a query that does not mention them.  *)

KProcesses == <<"p", "r", "o", "c", "e", "s", "s", "e", "s">>

ProcessesSpellings ==
  { KProcesses,
    <<"P", "r", "o", "c", "e", "s", "s", "e", "s">>,
    <<"P", "R", "O", "C", "E", "S", "S", "E", "S">> }

ProcessesPrefixes == { <<>>, <<"c", "p", "u", " ">>, <<"x">> }

ProcessesSuffixes == { <<>>, <<" ", "m", "e", "m", "o", "r", "y">> }

ProcessesQueries ==
  {p \o w \o s : p \in ProcessesPrefixes, w \in ProcessesSpellings, s \in ProcessesSuffixes}
    \cup {QCpu}

\* the retry budgets of these queries: a single attempt, or one retry
ProcessesBudgets == 0..1

ProcessesNext ==
  \/ \E userQuery \in ProcessesQueries, maxRetries \in ProcessesBudgets :
       ProcessQuery(userQuery, maxRetries)
  \/ TestGroqConnection
  \/ TryAdvancedMethod
  \/ InterpretAdvanced
  \/ QueryLLM
  \/ InterpretResult
  \/ ReturnToCaller

ProcessesSpec == Init /\ [][ProcessesNext]_vars

-----------------------------------------------------------------------------
(* formatBytes on its own: a call with a byte count, then its result. *)

\* the digits the byte counts are made of
Limbs == {0, 1, 2, 128, 1020, 1023}

\* 360546355422167 bytes, or 327.91499999999999 TB
Count327TB == <<327, 936, 983, 40, 983>>

\* byte counts from 1 to 1024^5 - 1: one digit for each unit of sizes
ByteCounts ==
  {Count327TB} \cup
  {b \in UNION {[1..n -> Limbs] : n \in 1..Len(sizes)} : b[1] # 0}

BytesInit ==
  /\ Constructed
  /\ startup = "none"
  /\ formatCall \in {[pc |-> "called", bytes |-> b, result |-> <<>>] : b \in ByteCounts}

\* lines 360-365
FormatBytes ==
  /\ formatCall.pc = "called"
  /\ formatCall' = [formatCall EXCEPT !.pc = "returned",
                                      !.result = formatBytes(formatCall.bytes)]
  /\ UNCHANGED <<groq, isInitialized, apiKey, frame, hist, returned, agentLog, startup>>

BytesSpec == BytesInit /\ [][FormatBytes]_vars

-----------------------------------------------------------------------------
(* The claims. *)

Done == frame.pc = "done"

Max0(n) == IF n < 0 THEN 0 ELSE n

\* the text tryFallbackMethod returns: the built-in notice, then the value
BuiltInText == <<"U+1F4CB ", "Using built-in method: ">> \o FallbackValue

\* text t occurs in text s
Contains(s, t) == includes(s, t)

\* C1: every processQuery call returns one envelope with the fields
\* interpretation, command and rawOutput, whatever the query, the retry
\* budget (default, 0 or negative) and the outcomes of the dependencies; no
\* exit of the retry loop returns undefined.
C1_AlwaysAnEnvelope == Done => frame.result.kind = "envelope"

\* C2: the interpretation of every returned envelope is a non-empty string,
\* whatever the completion service replies.
C2_InterpretationNonEmpty ==
  Done /\ frame.result.kind = "envelope" => frame.result.interpretation # <<>>

\* C3: processQuery never raises to its caller; a failure of initialization,
\* of an accessor, of generation, of execution or of interpretation ends in a
\* returned envelope (for a retry budget that admits an attempt: the exit of
\* a negative budget is the matter of C1).
C3_NeverRaises ==
  /\ frame.result.kind # "raised"
  /\ Done /\ frame.maxRetries >= 0 => frame.result.kind = "envelope"

\* C3 witness: a call during which an accessor threw and an attempt failed
\* has returned an envelope.
C3_Witness ==
  /\ Done
  /\ hist.accessorThrew # {}
  /\ hist.failed.error # JNull
  /\ hist.execCalls >= 1
  /\ frame.result.kind = "envelope"

\* the envelope returned when initialize returned false
InitFailedEnvelope == Envelope(MsgInitFailed, <<>>, <<>>)

\* the usage-style keywords as the claim lists them
ClaimUsageKeywords ==
  { <<"u", "s", "a", "g", "e">>,
    <<"r", "u", "n", "n", "i", "n", "g">>,
    <<"p", "r", "o", "c", "e", "s", "s", "e", "s">>,
    <<"s", "e", "r", "v", "i", "c", "e", "s">>,
    <<"c", "u", "r", "r", "e", "n", "t">> }

UsageStyle(userQuery) ==
  \E k \in ClaimUsageKeywords : includes(toLowerCase(userQuery), k)

\* the call is past initialization
Initialized ==
  /\ frame.pc \notin {"idle", "testGroqConnection"}
  /\ ~(Done /\ frame.result = InitFailedEnvelope)

\* C4: a query containing a usage-style keyword, in any letter case, never
\* invokes a structured accessor, also when it contains a structured
\* keyword; once initialized the call goes straight to command generation.
C4_UsageQuerySkipsAccessors ==
  UsageStyle(frame.userQuery) =>
    /\ hist.accessors = {}
    /\ frame.pc \notin {"tryAdvancedMethod", "interpretAdvanced"}
    /\ frame.result.command # LabelSysinfo
    /\ Initialized /\ frame.maxRetries >= 0 => hist.genCalls >= 1

\* C4 witness: a usage-style query that also names the cpu is in its first
\* generation call, no accessor invoked.
C4_Witness ==
  /\ UsageStyle(frame.userQuery)
  /\ includes(toLowerCase(frame.userQuery), advancedMethods[1])
  /\ frame.pc = "queryLLM"
  /\ hist.genCalls = 1
  /\ hist.accessors = {}

\* C5: the first generation call of a processQuery call receives neither a
\* previous error nor a previous command; every later one receives the error
\* text and the command text of the attempt before it.
C5_RetryReceivesErrorAndCommand ==
  frame.pc = "queryLLM" =>
    /\ hist.genCalls = 1 =>
         hist.genArgs.previousError = JNull /\ hist.genArgs.failedCommand = JNull
    /\ hist.genCalls > 1 =>
         /\ hist.genArgs.previousError = hist.failed.error
         /\ hist.genArgs.failedCommand = hist.failed.command

\* C6: a call makes at most maxRetries+1 generation calls and at most
\* maxRetries+1 executeCommand calls (none for a negative budget); at most 3
\* generation calls with the default budget of 2.
C6_CallsBounded ==
  /\ hist.genCalls <= Max0(frame.maxRetries + 1)
  /\ hist.execCalls <= Max0(frame.maxRetries + 1)
  /\ frame.maxRetries = DefaultMaxRetries => hist.genCalls <= 3

\* C6 witness: with the default budget, three generation calls and three
\* executeCommand calls were made.
C6_Witness ==
  /\ frame.maxRetries = DefaultMaxRetries
  /\ hist.genCalls = DefaultMaxRetries + 1
  /\ hist.execCalls = DefaultMaxRetries + 1

\* the reply carries the unknown signal
ReplyIsUnknown(reply) ==
  reply.tag = "string" /\ includes(toLowerCase(reply.s), IDontKnow)

\* the completion returned an empty result
ReplyIsEmpty(reply) ==
  reply.tag = "null" \/ (reply.tag = "string" /\ trim(reply.s) = <<>>)

\* the call ended on the static fallback table or the could-not-find envelope
EndedOnStaticFallback ==
  /\ Done
  /\ \/ frame.result = Envelope(BuiltInText, LabelBuiltin, <<>>)
     \/ frame.result = Envelope(MsgCouldNotFind(frame.userQuery), <<>>, <<>>)

\* C7: when a generation call returns the unknown signal, in any letter case
\* and on any attempt, the call executes no command in that attempt, makes
\* no further generation call, and returns the static-fallback result with
\* command "Used built-in method" or the could-not-find envelope with empty
\* command and rawOutput.
C7_UnknownSignalEndsTheLoop ==
  ReplyIsUnknown(hist.reply) =>
    /\ EndedOnStaticFallback
    /\ hist.execCalls = hist.execsBefore
    /\ hist.fallbackCalls = 1

\* C7 witness: the unknown signal came on a retry with a retry left, and the
\* static fallback answered.
C7_Witness ==
  /\ ReplyIsUnknown(hist.reply)
  /\ Done
  /\ frame.attempt >= 1
  /\ frame.attempt < frame.maxRetries
  /\ hist.genCalls = frame.attempt + 1
  /\ frame.result.command = LabelBuiltin

\* C8: when the completion service returns an empty result for a generation
\* call, no command is passed to executeCommand in that attempt; the static
\* fallback table is consulted and its result or the could-not-find envelope
\* is returned.
C8_EmptyReplyExecutesNothing ==
  ReplyIsEmpty(hist.reply) =>
    /\ hist.execCalls = hist.execsBefore
    /\ EndedOnStaticFallback

HasFallbackKeyword(userQuery) == MatchingKeys(fallbackMethods, userQuery) # {}

HasStructuredKeyword(userQuery) == MatchingKeys(advancedMethods, userQuery) # {}

\* C9: when no call to the completion service succeeds, the connectivity
\* test of initialize included, a query with a static-fallback keyword and
\* no structured keyword returns an envelope whose interpretation contains
\* the built-in notice followed by the value, whose command is a fixed
\* label and whose rawOutput is empty.
C9_BuiltInMethodWhenServiceDown ==
  /\ Done
  /\ apiKey = "key"
  /\ hist.testCalls >= 1
  /\ ~hist.llmSucceeded
  /\ HasFallbackKeyword(frame.userQuery)
  /\ ~HasStructuredKeyword(frame.userQuery)
  => /\ frame.result.kind = "envelope"
     /\ Contains(frame.result.interpretation, BuiltInText)
     /\ frame.result.command \in {LabelBuiltin, LabelFallback}
     /\ frame.result.rawOutput = <<>>

\* C10: when the accessor selected for a non-usage query throws, the call
\* does not raise, makes at least one generation call and returns no
\* structured-info envelope (stated for a retry budget that admits an
\* attempt).
C10_AccessorFailureGoesToGeneration ==
  /\ Done
  /\ frame.maxRetries >= 0
  /\ advancedMatch(frame.userQuery).tag = "string"
  /\ advancedMatch(frame.userQuery).s \in hist.accessorThrew
  => /\ frame.result.kind # "raised"
     /\ hist.genCalls >= 1
     /\ frame.result.command # LabelSysinfo

-----------------------------------------------------------------------------
(* C12. When the completion call made by interpretResult fails, after a    *)
(* command was executed or a structured accessor returned, the call is     *)
(* over: no retry is consumed (the attempt counter and the recorded        *)
(* failure are those of the attempts before), no further generation or     *)
(* execution call is made, and the envelope returned carries the locally   *)
(* formatted interpretation, the command or the structured label, and the  *)
(* raw output obtained.                                                    *)
C12_InterpretFailureFormatsLocally ==
  hist.interpFailed =>
    /\ Done
    /\ frame.result = Envelope(formatFallbackOutput(frame.userQuery, frame.rawOutput),
                               frame.command, frame.rawOutput)
    /\ frame.rawOutput # <<>>
    /\ frame.lastError = hist.failed.error
    /\ \/ /\ frame.command = LabelSysinfo
          /\ hist.genCalls = 0 /\ hist.execCalls = 0 /\ frame.attempt = 0
       \/ /\ Str(frame.command) = hist.attemptCommand
          /\ hist.genCalls = frame.attempt + 1
          /\ hist.execCalls = hist.execsBefore + 1

\* the interpretation of a command's output failed in a second attempt
C12_Witness ==
  /\ Done
  /\ hist.interpFailed
  /\ frame.attempt = 1
  /\ frame.command = CmdDir
  /\ hist.fallbackCalls = 0

-----------------------------------------------------------------------------
(* C13. Every envelope returned on a terminal failure path (initialization *)
(* failed; the static fallback table was consulted, after the unknown      *)
(* signal or after the last attempt failed, with or without a match) has   *)
(* an empty rawOutput and a command that is empty or one of the fixed      *)
(* labels, never the text of the command generated in the failed attempt.  *)
FixedLabels == {LabelBuiltin, LabelFallback}

TerminalFailure == Done /\ (~isInitialized \/ hist.fallbackCalls > 0)

C13_FailureEnvelopesCarryNoCommand ==
  TerminalFailure =>
    /\ frame.result.kind = "envelope"
    /\ frame.result.rawOutput = <<>>
    /\ frame.result.command \in {<<>>} \cup FixedLabels
    /\ Str(frame.result.command) # hist.attemptCommand

\* the budget is exhausted by a command that failed, and no fallback matches
C13_Witness ==
  /\ TerminalFailure
  /\ frame.attempt = frame.maxRetries
  /\ hist.execCalls > hist.execsBefore
  /\ hist.attemptCommand = Str(CmdDir)
  /\ frame.result.command = <<>>

-----------------------------------------------------------------------------
(* C18. Within one call tryFallbackMethod is consulted at most once, and   *)
(* the call is then over. It is consulted only when no structured accessor *)
(* returned and either the latest generation call returned the unknown     *)
(* signal or the attempt with index maxRetries failed; hence never while a *)
(* retry remains after a failed attempt. After exhaustion, when no         *)
(* fallback method matches, the interpretation reports the error of the    *)
(* final attempt.                                                          *)
AttemptFailed ==
  /\ hist.failed.error # JNull
  /\ hist.failed.error = frame.lastError
  /\ hist.failed.command = hist.attemptCommand

C18_FallbackOnlyAtTheEnd ==
  /\ hist.fallbackCalls <= 1
  /\ hist.fallbackCalls = 1 =>
       /\ Done
       /\ hist.accessors = hist.accessorThrew
       /\ hist.interpCalls = 0
       /\ hist.genCalls = frame.attempt + 1
       /\ \/ ReplyIsUnknown(hist.reply) /\ frame.result.command \in {<<>>, LabelBuiltin}
          \/ /\ ~ReplyIsUnknown(hist.reply)
             /\ frame.attempt = frame.maxRetries
             /\ AttemptFailed
             /\ frame.result.command \in {<<>>, LabelFallback}
             /\ frame.result.command = <<>> =>
                  frame.result.interpretation =
                    MsgCouldNotRetrieve(frame.userQuery, hist.failed.error.s)

\* three attempts failed, the last one in executeCommand, and no fallback
\* method matches the query
C18_Witness ==
  /\ Done
  /\ hist.fallbackCalls = 1
  /\ frame.attempt = DefaultMaxRetries
  /\ frame.maxRetries = DefaultMaxRetries
  /\ hist.failed.command = Str(CmdDir)
  /\ frame.result.interpretation =
       MsgCouldNotRetrieve(frame.userQuery, <<"Command execution failed: ">> \o SpawnError)

-----------------------------------------------------------------------------
(* C20. The first generation call of a processQuery call uses the lower    *)
(* temperature and its prompt carries no previous-failure clause; every    *)
(* later generation call of the same call follows a failed attempt, uses   *)
(* the higher temperature and carries the previous-failure clause with     *)
(* that attempt's error.                                                   *)
C20_TemperatureRisesOnRetries ==
  /\ hist.genCalls = 1 =>
       /\ hist.genArgs.temperature = LowTemperature
       /\ ~hist.genArgs.failureClause
       /\ frame.pc = "queryLLM" => hist.failed = NoFailure
  /\ hist.genCalls > 1 =>
       /\ hist.genArgs.temperature = HighTemperature
       /\ hist.genArgs.failureClause
       /\ hist.genArgs.previousError # JNull
       /\ frame.pc = "queryLLM" => hist.genArgs.previousError = hist.failed.error

\* the third generation call of a query is awaited
C20_Witness ==
  /\ frame.pc = "queryLLM"
  /\ hist.genCalls = DefaultMaxRetries + 1
  /\ hist.genArgs.temperature = HighTemperature
  /\ hist.genArgs.failureClause

-----------------------------------------------------------------------------
(* C14. Within one processQuery call the command text passed to            *)
(* executeCommand is never one that was passed to it in an earlier attempt *)
(* of the same call.                                                       *)
C14_NoAttemptRetriedVerbatim == ~hist.retriedVerbatim

-----------------------------------------------------------------------------
(* C15. In each executeCommand call the degraded invocation runs at most   *)
(* once, and only when the primary invocation could not be executed, not   *)
(* when it ran the command and the command failed; executeCommand raises   *)
(* only when both invocations failed, and the error it raises carries the  *)
(* primary error's text and is what the next generation call receives as   *)
(* its previous error.                                                     *)
C15_DegradedOnlyWhenPrimaryNotExecuted ==
  /\ hist.degradedRuns <= 1
  /\ hist.degradedRuns = 1 => hist.primary = "notExecuted"
  /\ hist.raised # NoReply =>
       /\ hist.primary # "returned"
       /\ hist.degradedRuns = 1
       /\ hist.raised.s \in {<<"Command execution failed: ">> \o SpawnError,
                             <<"Command execution failed: ">> \o CommandError}
  /\ frame.pc = "queryLLM" /\ hist.failed.command # JNull =>
       /\ hist.raised # NoReply
       /\ hist.genArgs.previousError = hist.raised

-----------------------------------------------------------------------------
(* C17. No state persists across queries: the first generation call of     *)
(* every processQuery call receives no previous error and no previous      *)
(* command, whatever became of earlier calls, and a call that ends on a    *)
(* failure path leaves the client and the initialized flag as they were    *)
(* when it began.                                                          *)
StartsWithEmptyRetryHistory ==
  /\ frame.pc # "idle" /\ hist.genCalls = 0 =>
       frame.lastError = JNull /\ frame.lastCommand = JNull /\ frame.attempt = 0
  /\ hist.genCalls = 1 =>
       hist.genArgs.previousError = JNull /\ hist.genArgs.failedCommand = JNull

AgentNow == [groq |-> groq, isInitialized |-> isInitialized]

C17_FailedQueryLeavesAgentUnchanged ==
  /\ StartsWithEmptyRetryHistory
  /\ EndedOnFailure => AgentNow = hist.atStart

(* C17, amended. The first generation call of every processQuery call      *)
(* receives no previous error and no previous command, whatever became of  *)
(* earlier calls. A call changes the agent only by the initialization it   *)
(* performs itself when it finds the agent uninitialized: it assigns the   *)
(* client, and sets the flag when the connectivity test succeeds. A call   *)
(* that finds the agent initialized leaves it unchanged, on failure paths  *)
(* too.                                                                    *)
C17_OnlyInitializationChangesAgent ==
  /\ StartsWithEmptyRetryHistory
  /\ frame.pc # "idle" /\ hist.testCalls = 0 => AgentNow = hist.atStart
  /\ hist.testCalls > 0 =>
       /\ hist.testCalls = 1
       /\ ~hist.atStart.isInitialized
       /\ groq = "client"
       /\ isInitialized => hist.llmSucceeded
       /\ ~isInitialized => frame.pc = "testGroqConnection" \/ frame.result = InitFailedEnvelope

\* a later call on an initialized agent, made after a call that ended on a
\* failure path, itself ends on a failure path after three attempts
C17_Witness ==
  /\ EndedOnFailure
  /\ hist.afterFailure
  /\ hist.atStart.isInitialized
  /\ hist.genCalls = DefaultMaxRetries + 1
  /\ hist.fallbackCalls = 1

-----------------------------------------------------------------------------
(* C19. When every awaited call eventually returns or fails, every         *)
(* processQuery call eventually returns. Each failed attempt that is       *)
(* followed by another raises the attempt counter by one, the counter      *)
(* never changes otherwise during a call, and no attempt is made with an   *)
(* index beyond maxRetries.                                                *)
InCall == frame.pc \notin {"idle", "done"}

C19_EveryCallReturns ==
  /\ InCall ~> Done
  /\ [][InCall =>
          /\ frame'.attempt \in {frame.attempt, frame.attempt + 1}
          /\ frame'.attempt = frame.attempt + 1 <=>
               /\ frame.pc \in {"queryLLM", "interpretResult"}
               /\ frame'.pc = "queryLLM"
               /\ hist'.failed.error # JNull
               /\ hist'.genCalls = hist.genCalls + 1]_vars
  /\ [](hist.genCalls > 0 => frame.attempt <= frame.maxRetries)

\* a call returns after three failed attempts, each of which reached
\* executeCommand
C19_Witness ==
  /\ Done
  /\ frame.maxRetries = DefaultMaxRetries
  /\ frame.attempt = DefaultMaxRetries
  /\ hist.execCalls = DefaultMaxRetries + 1
  /\ hist.raised # NoReply

-----------------------------------------------------------------------------
(* C16. For every byte count b with 1 <= b < 1024^5, formatBytes(b) is b   *)
(* divided by the largest power of 1024 not exceeding b, rounded to two    *)
(* decimals (a half rounds up), followed by a space and the unit of that   *)
(* power among B, KB, MB, GB, TB; formatBytes(1073741824) is "1 GB" and    *)
(* formatBytes(2048) is "2 KB".                                            *)
ExactHundredths(b) ==
  LET i == Len(b) - 1
      product == timesLimbs(b, 100, 0)
      whole == limbsValue(SubSeq(product, 1, Len(product) - i))
  IN  whole + (IF i > 0 /\ product[Len(product) - i + 1] >= 512 THEN 1 ELSE 0)

ExactFormat(b) == hundredthsToText(ExactHundredths(b)) \o <<" ">> \o sizes[Len(b)]

C16_FormatBytesExact ==
  formatCall.pc = "returned" =>
    /\ formatCall.result = ExactFormat(formatCall.bytes)
    /\ formatCall.bytes = <<1, 0, 0, 0>> => formatCall.result = <<"1", " ", "GB">>
    /\ formatCall.bytes = <<2, 0>> => formatCall.result = <<"2", " ", "KB">>

-----------------------------------------------------------------------------
(* C11. With a query in flight while the startup call of initialize awaits *)
(* its connectivity test, and no connectivity test having failed, the      *)
(* client is created at most once and tested at most once; and neither     *)
(* the client nor the initialized flag is assigned once the flag is set.   *)
C11_InitializedOnce ==
  /\ agentLog.failedTests = 0 => agentLog.clients <= 1 /\ agentLog.tests <= 1
  /\ agentLog.lateWrites = 0

-----------------------------------------------------------------------------
(* C21. Under any interleaving of initialize and processQuery calls: when  *)
(* the initialized flag is true the client is not null; the flag, once     *)
(* true, never becomes false again; and while a completion call of         *)
(* processQuery is awaited (generation, or interpretation of a command's   *)
(* output or of a structured result) the client is not null.               *)

\* processQuery awaits a generation or an interpretation call
CompletionAwaited == frame.pc \in {"queryLLM", "interpretResult", "interpretAdvanced"}

C21_FlagImpliesClient ==
  /\ [](isInitialized => groq # "null")
  /\ [][isInitialized => isInitialized']_vars
  /\ [](CompletionAwaited => groq # "null")

\* a query awaits its generation call on an initialized agent while a call
\* of initialize() made before the flag was set still awaits its test
C21_Witness ==
  /\ startup = "testGroqConnection"
  /\ frame.pc = "queryLLM"
  /\ isInitialized
  /\ agentLog.clients = 2

-----------------------------------------------------------------------------
(* C22. processQuery never invokes the structured accessor registered      *)
(* under 'processes': a query that contains "processes", in any case, is   *)
(* classified as usage-style, has no structured match and reaches neither  *)
(* tryAdvancedMethod nor the interpretation of a structured result; and no *)
(* other query invokes that accessor either.                               *)

\* the query, lower-cased, contains "processes"
MentionsProcesses(userQuery) == includes(toLowerCase(userQuery), KProcesses)

C22_ProcessesAccessorUnreachable ==
  /\ KProcesses \notin hist.accessors
  /\ MentionsProcesses(frame.userQuery) =>
       /\ isUsageQuery(frame.userQuery)
       /\ advancedMatch(frame.userQuery) = JNull
       /\ hist.accessors = {}
       /\ frame.pc \notin {"tryAdvancedMethod", "interpretAdvanced"}

\* a call has ended whose query names both 'cpu' and 'processes', after a
\* generation call and without any accessor having been invoked
C22_Witness ==
  /\ Done
  /\ MentionsProcesses(frame.userQuery)
  /\ includes(toLowerCase(frame.userQuery), QCpu)
  /\ hist.genCalls > 0
  /\ hist.accessors = {}

=============================================================================
